---- MODULE Spec2Model ----
(***************************************************************************)
(* The Kontent.ai -> Algolia update webhook                                *)
(* (src/src/functions/algolia-update-webhook.ts).                          *)
(*                                                                         *)
(* One HTTP request carries a batch of notifications; every notification   *)
(* is processed by its own async task (line 104), every item of a          *)
(* notification by its own async chain (line 112).  The Algolia index and  *)
(* the Kontent.ai delivery API are the environment.                        *)
(***************************************************************************)
EXTENDS Integers, Sequences, FiniteSets, TLC

(***************************************************************************)
(* Bounds of the model.                                                    *)
(***************************************************************************)
MaxItems == 2           \* work items (data.items entries) in one request body
MaxFaults == 1          \* external calls that throw in one behaviour

Codenames == {"a", "b"}
Languages == {"en", "es"}

Item(c, l) == [ codename |-> c, language |-> l ]

\* The (codename, language) pairs the notifications are about.
Items == { Item("a", "en"), Item("a", "es") }

\* The pairs the source may hold an item for: "b" is a page in "en" that links to "a".
SourcePairs == Items \cup { Item("b", "en") }

LinkedCodenames(c) == IF c = "b" THEN {"a"} ELSE {}

(***************************************************************************)
(* Content items of the delivery API (IContentItem): system.codename,      *)
(* system.language, system.type and the names of the elements it has.      *)
(***************************************************************************)
SlugElement == "url"

\* What the source holds for a pair: nothing, or an item of one of these kinds.
\* Only a/en takes every kind; the other pairs are an article or nothing.
Kinds == {"notfound", "article", "product", "page"}

KindsOf(p) ==
  IF p.codename = "a" /\ p.language = "en" THEN Kinds ELSE {"notfound", "article"}

ContentItem(c, l, kind) ==
  [ codename |-> c,
    language |-> l,
    type     |-> kind,
    elements |-> IF kind = "product" THEN {} ELSE {SlugElement} ]

(***************************************************************************)
(* utils/algoliaItem (AlgoliaItem, canConvertToAlgoliaItem,                *)
(* convertToAlgoliaItem).  A record carries the codenames of the items     *)
(* whose content it holds: the handler searches on that facet (line 185).  *)
(***************************************************************************)
ObjectIdOf(c, l) == c \o "_" \o l

canConvertToAlgoliaItem(slug, item) == slug \in item.elements

\* deliverItems: the map codename -> content item of one fetch.
convertToAlgoliaItem(deliverItems, slug, item) ==
  [ objectID |-> ObjectIdOf(item.codename, item.language),
    codename |-> item.codename,
    language |-> item.language,
    type     |-> item.type,
    content  |-> DOMAIN deliverItems ]

(***************************************************************************)
(* The two read collaborators.  An external call either answers or throws; *)
(* both wrappers catch and answer empty (lines 189-191, 208-210), so no    *)
(* exception leaves them: raised is FALSE.                                 *)
(***************************************************************************)
\* A call that throws answers nothing.
SearchThrows == [ threw |-> TRUE, hits |-> <<>> ]
DeliveryThrows == [ threw |-> TRUE, items |-> {} ]

\* The ranking of the index: the hits of a search come in this order of objectID.
Ranking == << "abc123", ObjectIdOf("a", "en"), ObjectIdOf("a", "es"), ObjectIdOf("b", "en") >>

RECURSIVE Ranked(_, _)
Ranked(S, k) ==
  IF k > Len(Ranking) THEN <<>>
  ELSE (IF \E r \in S : r.objectID = Ranking[k]
        THEN << CHOOSE r \in S : r.objectID = Ranking[k] >> ELSE <<>>)
       \o Ranked(S, k + 1)

\* index.search("", facetFilters: content.codename, language): the hits.
SearchResponse(idx, itemCodename, languageCodename) ==
  [ threw |-> FALSE,
    hits |-> Ranked({ r \in idx : /\ itemCodename \in r.content
                                  /\ r.language = languageCodename }, 1) ]

findAgoliaItems(response) ==
  [ raised |-> FALSE, hits |-> IF response.threw THEN <<>> ELSE response.hits ]

\* deliverClient.item(codename).languageParameter(language).depthParameter(100):
\* a throw when the source has no such item, otherwise response.data.item and the
\* values of response.data.linkedItems (the linked items the source holds).
DeliveryResponse(src, codename, languageCodename) ==
  IF src[Item(codename, languageCodename)] = "notfound" THEN DeliveryThrows
  ELSE [ threw |-> FALSE,
         items |-> { ContentItem(c, languageCodename, src[Item(c, languageCodename)]) :
                       c \in { d \in {codename} \cup LinkedCodenames(codename) :
                                 /\ Item(d, languageCodename) \in SourcePairs
                                 /\ src[Item(d, languageCodename)] # "notfound" } } ]

EmptyMap == << >>

ItemsByCodename(items) ==
  [ c \in { i.codename : i \in items } |-> CHOOSE i \in items : i.codename = c ]

\* Mutant: the fetch has no catch, a throw of the call leaves it.
findDeliverItemWithChildrenByCodenameUncaught(response) ==
  [ raised |-> response.threw,
    items |-> IF response.threw THEN EmptyMap ELSE ItemsByCodename(response.items) ]

findDeliverItemWithChildrenByCodename(response) ==
  [ raised |-> FALSE,
    items |-> IF response.threw THEN EmptyMap ELSE ItemsByCodename(response.items) ]

(***************************************************************************)
(* The decision of one work item (lines 115-150).                          *)
(***************************************************************************)
IndexedTypes == {"article", "product"}

\* Mutant: the type of the item is not looked at.
NotIndexableTypeBlind(deliverItems, codename) ==
  codename \notin DOMAIN deliverItems

NotIndexable(deliverItems, codename) ==
  \/ codename \notin DOMAIN deliverItems
  \/ deliverItems[codename].type \notin IndexedTypes

\* Mutant: the record is produced without asking canConvertToAlgoliaItem.
NewItemActionUnconditional(deliverItems, item, slug) ==
  IF NotIndexable(deliverItems, item.codename)
  THEN [ objectIdsToRemove |-> <<>>, recordsToReindex |-> <<>> ]
  ELSE [ objectIdsToRemove |-> <<>>,
         recordsToReindex |->
           << convertToAlgoliaItem(deliverItems, slug, deliverItems[item.codename]) >> ]

\* Lines 116-131: nothing is indexed for the item.
NewItemAction(deliverItems, item, slug) ==
  IF NotIndexable(deliverItems, item.codename)
  THEN [ objectIdsToRemove |-> <<>>, recordsToReindex |-> <<>> ]
  ELSE [ objectIdsToRemove |-> <<>>,
         recordsToReindex |->
           IF canConvertToAlgoliaItem(slug, deliverItems[item.codename])
           THEN << convertToAlgoliaItem(deliverItems, slug, deliverItems[item.codename]) >>
           ELSE <<>> ]

\* Mutant: the record found is removed also when it is re-indexed.
ExistingItemActionRemovingSuperseded(deliverItems, i, slug) ==
  IF NotIndexable(deliverItems, i.codename)
  THEN [ objectIdsToRemove |-> << i.objectID >>, recordsToReindex |-> <<>> ]
  ELSE [ objectIdsToRemove |-> << i.objectID >>,
         recordsToReindex |->
           << convertToAlgoliaItem(deliverItems, slug, deliverItems[i.codename]) >> ]

\* Mutant: the objectID removed is the one of the pair, not the one of the record.
ExistingItemActionRemovingPairId(deliverItems, i, slug) ==
  IF NotIndexable(deliverItems, i.codename)
  THEN [ objectIdsToRemove |-> << ObjectIdOf(i.codename, i.language) >>,
         recordsToReindex |-> <<>> ]
  ELSE [ objectIdsToRemove |-> <<>>,
         recordsToReindex |->
           << convertToAlgoliaItem(deliverItems, slug, deliverItems[i.codename]) >> ]

\* Mutant: a record whose item is gone is left in the index.
ExistingItemActionKeepingStale(deliverItems, i, slug) ==
  IF NotIndexable(deliverItems, i.codename)
  THEN [ objectIdsToRemove |-> <<>>, recordsToReindex |-> <<>> ]
  ELSE [ objectIdsToRemove |-> <<>>,
         recordsToReindex |->
           << convertToAlgoliaItem(deliverItems, slug, deliverItems[i.codename]) >> ]

\* Lines 135-149: one record i the index holds for the item.
ExistingItemAction(deliverItems, i, slug) ==
  IF NotIndexable(deliverItems, i.codename)
  THEN [ objectIdsToRemove |-> << i.objectID >>, recordsToReindex |-> <<>> ]
  ELSE [ objectIdsToRemove |-> <<>>,
         recordsToReindex |->
           << convertToAlgoliaItem(deliverItems, slug, deliverItems[i.codename]) >> ]

(***************************************************************************)
(* The merge of one notification's actions (lines 151-156).                *)
(***************************************************************************)
RECURSIVE Flat(_)
Flat(ss) == IF ss = <<>> THEN <<>> ELSE Head(ss) \o Flat(Tail(ss))

\* [...new Map(pairs).values()]: keys in order of first insertion, last value wins.
RECURSIVE MapValuesFrom(_, _)
MapValuesFrom(recs, k) ==
  IF k > Len(recs) THEN <<>>
  ELSE LET first == \A j \in 1..(k - 1) : recs[j].codename # recs[k].codename
           last  == CHOOSE j \in k..Len(recs) :
                      /\ recs[j].codename = recs[k].codename
                      /\ \A m \in (j + 1)..Len(recs) : recs[m].codename # recs[k].codename
       IN  (IF first THEN << recs[last] >> ELSE <<>>) \o MapValuesFrom(recs, k + 1)

RecordsToReIndex(actions) ==
  MapValuesFrom(Flat([ k \in 1..Len(actions) |-> actions[k].recordsToReindex ]), 1)

\* [...new Set(ids)]: in order of first insertion.
RECURSIVE SetValuesFrom(_, _)
SetValuesFrom(ids, k) ==
  IF k > Len(ids) THEN <<>>
  ELSE (IF \A j \in 1..(k - 1) : ids[j] # ids[k] THEN << ids[k] >> ELSE <<>>)
       \o SetValuesFrom(ids, k + 1)

ObjectIdsToRemove(actions) ==
  SetValuesFrom(Flat([ k \in 1..Len(actions) |-> actions[k].objectIdsToRemove ]), 1)

(***************************************************************************)
(* The index writes.                                                       *)
(***************************************************************************)
Range(s) == { s[k] : k \in 1..Len(s) }

\* Mutant: saveObjects adds the records and replaces none.
saveObjectsAdding(idx, recs) == idx \cup Range(recs)

\* saveObjects: every record replaces the record of its objectID.
saveObjects(idx, recs) ==
  { r \in idx : \A k \in 1..Len(recs) : recs[k].objectID # r.objectID } \cup Range(recs)

deleteObjects(idx, ids) == { r \in idx : r.objectID \notin Range(ids) }

ObjectIDs(recs) == [ k \in 1..Len(recs) |-> recs[k].objectID ]

(***************************************************************************)
(* Requests.                                                               *)
(***************************************************************************)
\* A notification (IWebhookDeliveryResponse): message and data.items may be missing.
Notification(its) == [ hasMessage |-> TRUE, hasItems |-> TRUE, items |-> its ]

ItemLists == UNION { [1..k -> Items] : k \in 1..MaxItems }

Malformed ==
  { [ hasMessage |-> FALSE, hasItems |-> TRUE, items |-> <<>> ],
    [ hasMessage |-> TRUE, hasItems |-> FALSE, items |-> <<>> ] }

Notifications == { Notification(its) : its \in ItemLists } \cup Malformed

\* A malformed notification takes the place of one work item.
Weight(n) == IF n \in Malformed THEN 1 ELSE Len(n.items)

RECURSIVE TotalWeight(_)
TotalWeight(ns) == IF ns = <<>> THEN 0 ELSE Weight(Head(ns)) + TotalWeight(Tail(ns))

\* Every notification holds at least one item, so a body holds at most MaxItems.
NotificationLists ==
  { ns \in UNION { [1..k -> Notifications] : k \in 0..MaxItems } :
      TotalWeight(ns) <= MaxItems }

\* What JSON.parse answers for a body that is one notification (the legacy shape)
\* and for a body { notifications: [...] }.
SingleShape(n) == n

WrapperShape(ns) == [ notifications |-> ns ]

Unparsed == [ unparsed |-> TRUE ]

\* event.body: empty, text that is no JSON, or JSON of one of the two shapes.
Bodies ==
  { [ kind |-> "empty", webhookData |-> Unparsed ],
    [ kind |-> "text", webhookData |-> Unparsed ] }
  \cup { [ kind |-> "json", webhookData |-> SingleShape(n) ] : n \in Notifications }
  \cup { [ kind |-> "json", webhookData |-> WrapperShape(ns) ] : ns \in NotificationLists }

ParamNames == {"slug", "appId", "index"}

\* event.queryStringParameters: null, or some of the names with a string value, or
\* all of them with one value undefined.
QueryParams ==
  { [ isNull |-> TRUE, props |-> <<>> ] }
  \cup { [ isNull |-> FALSE, props |-> f ] :
           f \in UNION { [D -> {"string"}] : D \in SUBSET ParamNames } }
  \cup { [ isNull |-> FALSE,
           props |-> [ q \in ParamNames |-> IF q = p THEN "undefined" ELSE "string" ] ] :
           p \in ParamNames }

\* The requests (event) with a body of the given set.
RequestsOver(bodies) ==
  [ httpMethod : {"POST", "GET"},
    body : bodies,
    envVars : BOOLEAN,          \* KONTENT_SECRET and ALGOLIA_API_KEY are set
    kcSignature : BOOLEAN,      \* the x-kc-signature header is present
    validSignature : BOOLEAN,   \* isValidSignatureFromString(...)
    queryStringParameters : QueryParams ]

Requests == RequestsOver(Bodies)

hasStringProperty(propName, v) ==
  /\ ~v.isNull
  /\ propName \in DOMAIN v.props
  /\ v.props[propName] = "string"

areValidQueryParams(v) ==
  /\ ~v.isNull
  /\ hasStringProperty("slug", v)
  /\ hasStringProperty("appId", v)
  /\ hasStringProperty("index", v)

\* Mutant: a body without notifications holds no notification.
WebhookDataArrayOfWrapperOnly(webhookData) ==
  IF "notifications" \in DOMAIN webhookData THEN webhookData.notifications ELSE <<>>

\* webhookData.notifications ?? [webhookData] (line 94).
WebhookDataArray(webhookData) ==
  IF "notifications" \in DOMAIN webhookData
  THEN webhookData.notifications
  ELSE << webhookData >>

Response(code) == [ statusCode |-> code, deletedObjectIds |-> <<>>, reIndexedObjectIds |-> <<>> ]

NoResponse == Response(0)

\* What serializeUncaughtErrorsHandler answers for an uncaught error.
UncaughtError == Response(500)

\* Lines 66-99: the response of a request that goes no further, NoResponse otherwise.
EarlyResponse(req) ==
  IF req.httpMethod # "POST" THEN Response(405)
  ELSE IF req.body.kind = "empty" THEN Response(400)
  ELSE IF ~req.envVars THEN Response(500)
  ELSE IF ~req.kcSignature \/ ~req.validSignature THEN Response(401)
  ELSE IF req.body.kind = "text" THEN UncaughtError
  ELSE IF ~areValidQueryParams(req.queryStringParameters) THEN Response(400)
  ELSE NoResponse

(***************************************************************************)
(* State.                                                                  *)
(***************************************************************************)
VARIABLES
  index,      \* the Algolia index: a set of records, one per objectID
  source,     \* what the delivery API holds for each pair, once it has been read
  batch,      \* webhookDataArray of the request being handled
  slug,       \* queryParams.slug
  task,       \* one async task per notification (line 104)
  response,   \* the response of the handler, NoResponse until it returns
  faults,     \* external calls that have thrown so far
  delivery,   \* 0 before the request arrives, then the number of its delivery
  index0      \* the index when this delivery began

vars == << index, source, batch, slug, task, response, faults, delivery, index0 >>

Record(oid, c, l, content) ==
  [ objectID |-> oid, codename |-> c, language |-> l, type |-> "article",
    content |-> content ]

\* Indexes earlier runs may have left, of at most two records: the record of a/en,
\* a record of a/en under an older objectID, the record of b/en with the content
\* of a inlined, the record of a/es.
IndexedA == Record(ObjectIdOf("a", "en"), "a", "en", {"a"})
LegacyA == Record("abc123", "a", "en", {"a"})
IndexedB == Record(ObjectIdOf("b", "en"), "b", "en", {"a", "b"})
IndexedEs == Record(ObjectIdOf("a", "es"), "a", "es", {"a"})

InitialIndexes ==
  { {}, {IndexedA}, {LegacyA}, {IndexedB}, {IndexedA, LegacyA}, {IndexedA, IndexedB},
    {LegacyA, IndexedEs} }

Unread == "unread"

Begin(thrown) ==
  /\ index \in InitialIndexes
  /\ source = [ p \in SourcePairs |-> Unread ]
  /\ batch = <<>>
  /\ slug = SlugElement
  /\ task = <<>>
  /\ response = NoResponse
  /\ faults = thrown
  /\ delivery = 0
  /\ index0 = index

Init == Begin(0)

(***************************************************************************)
(* The handler up to the start of the tasks (lines 65-113).                *)
(***************************************************************************)
\* A request that is answered before any task starts.
Reject ==
  /\ delivery = 0
  /\ response = NoResponse
  /\ \E req \in Requests :
       /\ EarlyResponse(req) # NoResponse
       /\ response' = EarlyResponse(req)
  /\ delivery' = 1
  /\ UNCHANGED << index, source, batch, slug, task, faults, index0 >>

\* The synchronous part of one task: new DeliveryClient(message.project_id) and
\* data.items.map throw on a malformed notification; otherwise every item's
\* search is under way.
StartTask(n) ==
  IF n.hasMessage /\ n.hasItems
  THEN [ pc |-> "read",
         items |-> [ k \in 1..Len(n.items) |->
                     [ pc |-> "search", searchThrew |-> FALSE, hits |-> <<>>,
                       fetches |-> <<>>, actions |-> <<>> ] ],
         threw |-> "", reIndexedObjectIds |-> <<>>, deletedObjectIds |-> <<>> ]
  ELSE [ pc |-> "failed", items |-> <<>>,
         threw |-> "start", reIndexedObjectIds |-> <<>>, deletedObjectIds |-> <<>> ]

StartTasks(ns) == [ n \in 1..Len(ns) |-> StartTask(ns[n]) ]

\* Mutant: the handler waits for every task and answers the summary whatever the
\* tasks threw.
SettleWhateverThrown(tasks, resp) ==
  IF resp # NoResponse THEN resp
  ELSE IF \A n \in 1..Len(tasks) : tasks[n].pc \in {"done", "failed"}
  THEN [ statusCode |-> 200,
         deletedObjectIds |-> Flat([ n \in 1..Len(tasks) |-> tasks[n].deletedObjectIds ]),
         reIndexedObjectIds |-> Flat([ n \in 1..Len(tasks) |-> tasks[n].reIndexedObjectIds ]) ]
  ELSE NoResponse

\* Mutant: the summary holds the result of the first task only.
SettleFirstResultOnly(tasks, resp) ==
  IF resp # NoResponse THEN resp
  ELSE IF \E n \in 1..Len(tasks) : tasks[n].pc = "failed" THEN UncaughtError
  ELSE IF \A n \in 1..Len(tasks) : tasks[n].pc = "done"
  THEN [ statusCode |-> 200,
         deletedObjectIds |-> IF Len(tasks) = 0 THEN <<>> ELSE tasks[1].deletedObjectIds,
         reIndexedObjectIds |-> IF Len(tasks) = 0 THEN <<>> ELSE tasks[1].reIndexedObjectIds ]
  ELSE NoResponse

\* Promise.all(asyncWebhookDataArray) (line 167): the handler throws as soon as one
\* task has, and answers the summary of lines 169-179 once every task has returned.
Settle(tasks, resp) ==
  IF resp # NoResponse THEN resp
  ELSE IF \E n \in 1..Len(tasks) : tasks[n].pc = "failed" THEN UncaughtError
  ELSE IF \A n \in 1..Len(tasks) : tasks[n].pc = "done"
  THEN [ statusCode |-> 200,
         deletedObjectIds |-> Flat([ n \in 1..Len(tasks) |-> tasks[n].deletedObjectIds ]),
         reIndexedObjectIds |-> Flat([ n \in 1..Len(tasks) |-> tasks[n].reIndexedObjectIds ]) ]
  ELSE NoResponse

Start ==
  /\ delivery = 0
  /\ response = NoResponse
  /\ \E req \in Requests :
       /\ EarlyResponse(req) = NoResponse
       /\ batch' = WebhookDataArray(req.body.webhookData)
       /\ task' = StartTasks(batch')
       /\ response' = Settle(task', NoResponse)
  /\ delivery' = 1
  /\ index0' = index
  /\ UNCHANGED << index, source, slug, faults >>

\* The sender delivers the request a second time after the handler has answered 200
\* to the first delivery.
Redeliver ==
  /\ delivery = 1
  /\ response.statusCode = 200
  /\ task' = StartTasks(batch)
  /\ response' = Settle(task', NoResponse)
  /\ delivery' = 2
  /\ index0' = index
  /\ UNCHANGED << index, source, batch, slug, faults >>

(***************************************************************************)
(* One work item (lines 112-150): the search, then one fetch for the item  *)
(* or one fetch per record found.  The fetches read the source only, which *)
(* no step of the handler writes, so they are taken with the search.       *)
(***************************************************************************)
\* The sources that agree with src and are read for every pair of P and for the
\* pairs the items of P link to.
Reads(src, P) ==
  { s \in [SourcePairs -> Kinds \cup {Unread}] :
      \A p \in SourcePairs :
        IF src[p] # Unread THEN s[p] = src[p]
        ELSE IF \/ p \in P
                \/ \E r \in P : /\ s[r] # "notfound"
                                /\ r.language = p.language
                                /\ p.codename \in LinkedCodenames(r.codename)
        THEN s[p] \in KindsOf(p)
        ELSE s[p] = Unread }

Actions(items) == Flat([ k \in 1..Len(items) |-> items[k].actions ])

\* Lines 153-164 once the actions of a task are known: the task goes on to
\* saveObjects, to deleteObjects, or returns with nothing written.
AfterRead(items) ==
  IF \E k \in 1..Len(items) : items[k].pc # "done" THEN "read"
  ELSE IF Len(RecordsToReIndex(Actions(items))) > 0 THEN "save"
  ELSE IF Len(ObjectIdsToRemove(Actions(items))) > 0 THEN "delete"
  ELSE "done"

Resolve(n, i) ==
  /\ task[n].pc = "read"
  /\ task[n].items[i].pc = "search"
  /\ LET item == batch[n].items[i] IN
     \E sr \in { SearchResponse(index, item.codename, item.language) }
                 \cup (IF faults < MaxFaults THEN {SearchThrows} ELSE {}) :
       LET found == findAgoliaItems(sr)
           existingAlgoliaItems == found.hits
           targets ==
             IF Len(existingAlgoliaItems) = 0 THEN << item >>
             ELSE [ k \in 1..Len(existingAlgoliaItems) |->
                    Item(existingAlgoliaItems[k].codename, existingAlgoliaItems[k].language) ]
           searchFaults == IF sr.threw THEN 1 ELSE 0
       IN
       \E thrown \in SUBSET (1..Len(targets)) :
         /\ faults + searchFaults + Cardinality(thrown) <= MaxFaults
         /\ \E src \in Reads(source, { targets[k] : k \in (1..Len(targets)) \ thrown }) :
              LET answer(k) ==
                    IF k \in thrown THEN DeliveryThrows
                    ELSE DeliveryResponse(src, targets[k].codename, targets[k].language)
                  fetched(k) == findDeliverItemWithChildrenByCodename(answer(k))
                  deliverItems(k) == fetched(k).items
                  actions ==
                    IF Len(existingAlgoliaItems) = 0
                    THEN << NewItemAction(deliverItems(1), item, slug) >>
                    ELSE [ k \in 1..Len(existingAlgoliaItems) |->
                           ExistingItemAction(deliverItems(k), existingAlgoliaItems[k], slug) ]
                  raised == found.raised \/ \E k \in 1..Len(targets) : fetched(k).raised
                  items == [ task[n].items EXCEPT ![i] =
                             [ pc |-> "done",
                               searchThrew |-> sr.threw,
                               hits |-> existingAlgoliaItems,
                               fetches |-> [ k \in 1..Len(targets) |->
                                             [ codename |-> targets[k].codename,
                                               language |-> targets[k].language,
                                               threw |-> answer(k).threw,
                                               fault |-> k \in thrown ] ],
                               actions |-> IF raised THEN <<>> ELSE actions ] ]
              IN
              /\ source' = src
              /\ faults' = faults + searchFaults + Cardinality(thrown)
              /\ task' = [ task EXCEPT
                             ![n].items = items,
                             ![n].pc = IF raised THEN "failed" ELSE AfterRead(items),
                             ![n].threw = IF raised THEN "read" ELSE "" ]
  /\ response' = Settle(task', response)
  /\ UNCHANGED << index, batch, slug, delivery, index0 >>

(***************************************************************************)
(* The writes of one task (lines 158-159).                                 *)
(***************************************************************************)
\* line 158: await index.saveObjects(recordsToReIndex).wait()
Save(n) ==
  /\ task[n].pc = "save"
  /\ LET recordsToReIndex == RecordsToReIndex(Actions(task[n].items))
         objectIdsToRemove == ObjectIdsToRemove(Actions(task[n].items))
     IN
     \/ /\ index' = saveObjects(index, recordsToReIndex)
        /\ task' = [ task EXCEPT
                       ![n].pc = IF Len(objectIdsToRemove) > 0 THEN "delete" ELSE "done",
                       ![n].reIndexedObjectIds = ObjectIDs(recordsToReIndex) ]
        /\ UNCHANGED faults
     \/ /\ faults < MaxFaults
        /\ faults' = faults + 1
        /\ task' = [ task EXCEPT ![n].pc = "failed", ![n].threw = "save" ]
        /\ UNCHANGED index
  /\ response' = Settle(task', response)
  /\ UNCHANGED << source, batch, slug, delivery, index0 >>

\* line 159: await index.deleteObjects(objectIdsToRemove).wait()
Delete(n) ==
  /\ task[n].pc = "delete"
  /\ LET objectIdsToRemove == ObjectIdsToRemove(Actions(task[n].items)) IN
     \/ /\ index' = deleteObjects(index, objectIdsToRemove)
        /\ task' = [ task EXCEPT ![n].pc = "done",
                                 ![n].deletedObjectIds = objectIdsToRemove ]
        /\ UNCHANGED faults
     \/ /\ faults < MaxFaults
        /\ faults' = faults + 1
        /\ task' = [ task EXCEPT ![n].pc = "failed", ![n].threw = "delete" ]
        /\ UNCHANGED index
  /\ response' = Settle(task', response)
  /\ UNCHANGED << source, batch, slug, delivery, index0 >>

Next ==
  \/ Reject
  \/ Start
  \/ \E n \in 1..Len(task) : \E i \in 1..Len(task[n].items) : Resolve(n, i)
  \/ \E n \in 1..Len(task) : Save(n)
  \/ \E n \in 1..Len(task) : Delete(n)

Spec == Init /\ [][Next]_vars

(***************************************************************************)
(* The same request delivered twice, with no external call throwing.       *)
(***************************************************************************)
InitNoFaults == Begin(MaxFaults)

NextTwice == Next \/ Redeliver

SpecTwice == InitNoFaults /\ [][NextTwice]_vars

(***************************************************************************)
(* What a delivery has done so far.                                        *)
(***************************************************************************)
Tasks == 1..Len(task)

Upserts(n) == RecordsToReIndex(Actions(task[n].items))

Removals(n) == ObjectIdsToRemove(Actions(task[n].items))

\* The task has called saveObjects / deleteObjects.
SaveIssued(n) ==
  \/ task[n].threw = "save"
  \/ task[n].pc \in {"delete", "done"} /\ Len(Upserts(n)) > 0
  \/ task[n].threw = "delete" /\ Len(Upserts(n)) > 0

DeleteIssued(n) ==
  \/ task[n].threw = "delete"
  \/ task[n].pc = "done" /\ Len(Removals(n)) > 0

\* The record the source projects to for a pair it holds an indexable item for.
ProjectionOf(p) ==
  LET deliverItems ==
        findDeliverItemWithChildrenByCodename(
          DeliveryResponse(source, p.codename, p.language)).items
  IN  convertToAlgoliaItem(deliverItems, slug, deliverItems[p.codename])

SourceKnown(p) ==
  /\ source[p] # Unread
  /\ \A q \in SourcePairs :
       (q.language = p.language /\ q.codename \in LinkedCodenames(p.codename))
         => source[q] # Unread

\* Every record of idx equals the projection of its source item, which is indexable.
Converged(idx) ==
  \A r \in idx :
    LET p == Item(r.codename, r.language) IN
    /\ SourceKnown(p)
    /\ source[p] \in IndexedTypes
    /\ r = ProjectionOf(p)

SecondRunOnConverged ==
  /\ delivery = 2
  /\ response.statusCode = 200
  /\ Converged(index0)

ResolvedItems ==
  { w \in UNION { { << n, i >> : i \in 1..Len(task[n].items) } : n \in Tasks } :
      /\ task[w[1]].items[w[2]].pc = "done"
      /\ task[w[1]].threw # "read" }

WorkItem(w) == task[w[1]].items[w[2]]

C2_Anchoring ==
  \A w \in ResolvedItems :
    LET it == WorkItem(w) IN
    Len(it.hits) > 0 =>
      /\ \A k \in 1..Len(it.hits) :
           it.fetches[k].threw =>
             /\ it.hits[k].objectID \in Range(Removals(w[1]))
             /\ Len(it.actions[k].recordsToReindex) = 0
      /\ ( /\ Len(batch) = 1
           /\ Len(batch[1].items) = 1
           /\ Len(it.hits) = 1
           /\ it.hits[1].objectID = "abc123"
           /\ it.fetches[1].threw )
         => /\ Len(Upserts(1)) = 0
            /\ Removals(1) = << "abc123" >>

C2_Witness ==
  /\ Len(batch) = 1
  /\ Len(batch[1].items) = 1
  /\ << 1, 1 >> \in ResolvedItems
  /\ task[1].items[1].hits = << LegacyA >>
  /\ task[1].items[1].fetches[1].threw
  /\ task[1].deletedObjectIds = << "abc123" >>
  /\ index = {}

(***************************************************************************)
(* C3: a work item produces a record for saveObjects only from a source    *)
(* item that was fetched and whose type is article or product, whether or  *)
(* not the index held records for the work item.                           *)
(***************************************************************************)
C3_TypeGate ==
  \A w \in ResolvedItems :
    \A k \in 1..Len(WorkItem(w).actions) :
      Len(WorkItem(w).actions[k].recordsToReindex) > 0 =>
        /\ ~WorkItem(w).fetches[k].threw
        /\ source[Item(WorkItem(w).fetches[k].codename, WorkItem(w).fetches[k].language)]
             \in IndexedTypes

C3_Witness ==
  \E w \in ResolvedItems :
    /\ Len(WorkItem(w).hits) > 0
    /\ \E k \in 1..Len(WorkItem(w).hits) :
         /\ ~WorkItem(w).fetches[k].threw
         /\ source[Item(WorkItem(w).hits[k].codename, WorkItem(w).hits[k].language)] = "page"
    /\ task[w[1]].pc = "done"

(***************************************************************************)
(* C4, as stated: when two notifications of a batch are about the same     *)
(* (codename, language), the records the whole run upserts hold at most    *)
(* one record of that codename.                                            *)
(***************************************************************************)
C4_OneUpsertPerCodename ==
  \A n, m \in Tasks :
    ( /\ n # m
      /\ Range(batch[n].items) \cap Range(batch[m].items) # {}
      /\ SaveIssued(n)
      /\ SaveIssued(m) )
    => \A r \in Range(Upserts(n)) : \A q \in Range(Upserts(m)) : r.codename # q.codename

(***************************************************************************)
(* C5, as stated: after the merge no upserted record has its objectID in   *)
(* objectIdsToRemove, and a record the run re-indexed is in the index when *)
(* the run has answered.                                                   *)
(***************************************************************************)
C5_UpsertBeatsRemoval ==
  \A n \in Tasks :
    task[n].pc \in {"save", "delete", "done"} =>
      /\ \A r \in Range(Upserts(n)) : r.objectID \notin Range(Removals(n))
      /\ (Len(task) = 1 /\ response.statusCode = 200) => Range(Upserts(n)) \subseteq index

(***************************************************************************)
(* C6: a search or a fetch that fails for one work item fails no task: the *)
(* item goes on with an empty result, every work item yields the actions   *)
(* it yields alone (from the records its own search found and the source), *)
(* and the run answers the summary once every task has returned.           *)
(***************************************************************************)
\* The actions of work item i of notification n, from its own reads alone.
AloneActions(n, i) ==
  LET it == task[n].items[i]
      deliverItems(k) ==
        IF it.fetches[k].fault THEN EmptyMap
        ELSE LET answer == DeliveryResponse(source, it.fetches[k].codename,
                                            it.fetches[k].language)
             IN  IF answer.threw THEN EmptyMap ELSE ItemsByCodename(answer.items)
  IN  IF Len(it.hits) = 0
      THEN << NewItemAction(deliverItems(1), batch[n].items[i], slug) >>
      ELSE [ k \in 1..Len(it.hits) |-> ExistingItemAction(deliverItems(k), it.hits[k], slug) ]

\* The records the search of a work item finds when it runs alone.
AloneHits(n, i) ==
  IF task[n].items[i].searchThrew THEN <<>>
  ELSE SearchResponse(index0, batch[n].items[i].codename, batch[n].items[i].language).hits

NoWriteThrew == \A n \in Tasks : task[n].threw \notin {"start", "save", "delete"}

C7_AtMostOneWriteOfEachKind ==
  /\ Cardinality({ n \in Tasks : SaveIssued(n) }) <= 1
  /\ Cardinality({ n \in Tasks : DeleteIssued(n) }) <= 1

(***************************************************************************)
(* C8, as stated: no index write of a run starts before every search and   *)
(* every fetch of the run, for all its notifications, has completed.       *)
(***************************************************************************)
C8_ReadsBeforeWrites ==
  (\E n \in Tasks : SaveIssued(n) \/ DeleteIssued(n))
    => \A m \in Tasks : \A i \in 1..Len(task[m].items) : task[m].items[i].pc = "done"

(***************************************************************************)
(* C9, as stated: a request that is rejected, or whose body holds a        *)
(* notification without message or data.items, makes no search, no fetch   *)
(* and no index write, and leaves the index as it was.                     *)
(***************************************************************************)
C9_RejectedRunTouchesNothing ==
  (delivery > 0 /\ (Len(task) = 0 \/ \E n \in Tasks : batch[n] \in Malformed))
    => /\ index = index0
       /\ \A p \in SourcePairs : source[p] = Unread
       /\ \A n \in Tasks :
            /\ ~SaveIssued(n)
            /\ ~DeleteIssued(n)
            /\ \A i \in 1..Len(task[n].items) : task[n].items[i].pc = "search"

(***************************************************************************)
(* C10: when a call of saveObjects or deleteObjects has thrown, the run    *)
(* ends with the uncaught error and never with the summary; the summary is *)
(* answered only when every task has returned and no write has thrown.     *)
(***************************************************************************)
C10_WriteFailureVisible ==
  /\ (\E n \in Tasks : task[n].threw \in {"save", "delete"}) => response = UncaughtError
  /\ response.statusCode = 200 =>
       \A n \in Tasks : task[n].pc = "done" /\ task[n].threw = ""

C10_Witness ==
  /\ Len(task) = 2
  /\ \E n, m \in Tasks :
       /\ task[n].threw = "delete"
       /\ SaveIssued(n)
       /\ task[m].pc = "done"
       /\ SaveIssued(m)
  /\ response = UncaughtError

(***************************************************************************)
(* C11, as stated: once every search and fetch of a run has answered, the  *)
(* index the run leaves is the same for every order in which the writes of *)
(* its tasks complete.                                                     *)
(***************************************************************************)
\* The indexes the writes still to come can leave, no write throwing: pcs is the
\* position of every task.
RECURSIVE FinalIndexes(_, _)
FinalIndexes(idx, pcs) ==
  LET writing == { n \in DOMAIN pcs : pcs[n] \in {"save", "delete"} } IN
  IF writing = {} THEN {idx}
  ELSE UNION { IF pcs[n] = "save"
               THEN FinalIndexes(saveObjects(idx, Upserts(n)),
                                 [ pcs EXCEPT ![n] = IF Len(Removals(n)) > 0
                                                     THEN "delete" ELSE "done" ])
               ELSE FinalIndexes(deleteObjects(idx, Removals(n)),
                                 [ pcs EXCEPT ![n] = "done" ]) : n \in writing }

C11_OrderIndependent ==
  (Len(task) > 0 /\ \A n \in Tasks : task[n].pc \in {"save", "delete", "done"})
    => Cardinality(FinalIndexes(index, [ n \in Tasks |-> task[n].pc ])) = 1

(***************************************************************************)
(* C12: the summary of a successful run lists, over all notifications of   *)
(* the batch, exactly the objectIDs of the records handed to saveObjects   *)
(* and exactly the objectIDs handed to deleteObjects; for a one-item batch *)
(* with no record found and an eligible item it lists the objectID of the  *)
(* new record and no deleted objectID.                                     *)
(***************************************************************************)
UpsertedObjectIds == UNION { { r.objectID : r \in Range(Upserts(n)) } : n \in Tasks }

RemovedObjectIds == UNION { Range(Removals(n)) : n \in Tasks }

OneNewEligibleItem ==
  /\ Len(task) = 1
  /\ Len(task[1].items) = 1
  /\ task[1].items[1].pc = "done"
  /\ Len(task[1].items[1].hits) = 0
  /\ Len(task[1].items[1].actions[1].recordsToReindex) = 1

C12_ResponseSummary ==
  response.statusCode = 200 =>
    /\ Range(response.reIndexedObjectIds) = UpsertedObjectIds
    /\ Range(response.deletedObjectIds) = RemovedObjectIds
    /\ \A n \in Tasks : (Len(Upserts(n)) > 0 => SaveIssued(n))
                        /\ (Len(Removals(n)) > 0 => DeleteIssued(n))
    /\ OneNewEligibleItem =>
         /\ response.reIndexedObjectIds =
              << ObjectIdOf(batch[1].items[1].codename, batch[1].items[1].language) >>
         /\ response.deletedObjectIds = <<>>
         /\ \E r \in index : r.objectID = response.reIndexedObjectIds[1]

C12_Witness ==
  /\ response.statusCode = 200
  /\ Len(task) = 2
  /\ Len(response.reIndexedObjectIds) > 0
  /\ Len(response.deletedObjectIds) > 0
  /\ Len(task[2].reIndexedObjectIds) + Len(task[2].deletedObjectIds) > 0

C12_WitnessOneNewItem ==
  /\ response.statusCode = 200
  /\ OneNewEligibleItem

(***************************************************************************)
(* C13: a body that is one notification N and a body { notifications: [N] }*)
(* are normalised to the same one-element sequence, are answered the same  *)
(* when the request goes no further, and start the same tasks.             *)
(***************************************************************************)
\* The requests whose body is the JSON of webhookData.
RequestsWith(webhookData) ==
  RequestsOver({ [ kind |-> "json", webhookData |-> webhookData ] })

SameButBody(req, webhookData) ==
  [ req EXCEPT !.body = [ kind |-> "json", webhookData |-> webhookData ] ]

C13_ShapeEquivalence ==
  (delivery > 0 /\ Len(batch) = 1) =>
    LET N == batch[1] IN
    /\ WebhookDataArray(SingleShape(N)) = << N >>
    /\ WebhookDataArray(WrapperShape(<< N >>)) = << N >>
    /\ StartTasks(WebhookDataArray(SingleShape(N)))
         = StartTasks(WebhookDataArray(WrapperShape(<< N >>)))
    /\ \A req \in RequestsWith(SingleShape(N)) :
         EarlyResponse(SameButBody(req, WrapperShape(<< N >>))) = EarlyResponse(req)

C13_Witness ==
  /\ delivery = 1
  /\ Len(batch) = 1
  /\ batch = WebhookDataArray(SingleShape(batch[1]))
  /\ batch = WebhookDataArray(WrapperShape(batch))
  /\ response.statusCode = 200
  /\ SaveIssued(1)
  /\ index # index0

(***************************************************************************)
(* C14, as stated: for a record the search found whose source item is      *)
(* fetched and is an article or a product, but for which                   *)
(* canConvertToAlgoliaItem(slug) is false, the objectID of the record is   *)
(* scheduled for removal and no record is produced.                        *)
(***************************************************************************)
\* The source item of fetch k of a work item, once it has been fetched.
FetchedItem(it, k) ==
  ContentItem(it.fetches[k].codename, it.fetches[k].language,
              source[Item(it.fetches[k].codename, it.fetches[k].language)])

ProjectionRejected(it, k) ==
  /\ ~it.fetches[k].threw
  /\ FetchedItem(it, k).type \in IndexedTypes
  /\ ~canConvertToAlgoliaItem(slug, FetchedItem(it, k))

C14_RejectedProjectionRemoved ==
  \A w \in ResolvedItems :
    \A k \in 1..Len(WorkItem(w).hits) :
      ProjectionRejected(WorkItem(w), k) =>
        /\ WorkItem(w).actions[k].objectIdsToRemove = << WorkItem(w).hits[k].objectID >>
        /\ WorkItem(w).actions[k].recordsToReindex = <<>>

(***************************************************************************)
(* C15: a work item whose search returns no record schedules no removal,   *)
(* makes exactly one fetch, for the notified codename and language, and    *)
(* produces exactly one record, of that codename and language, when the    *)
(* item is fetched, is an article or a product and passes                  *)
(* canConvertToAlgoliaItem(slug); it produces no record otherwise.         *)
(***************************************************************************)
C15_NeverIndexedBranch ==
  \A w \in ResolvedItems :
    LET it == WorkItem(w)
        item == batch[w[1]].items[w[2]]
        eligible == /\ ~it.fetches[1].threw
                    /\ FetchedItem(it, 1).type \in IndexedTypes
                    /\ canConvertToAlgoliaItem(slug, FetchedItem(it, 1))
    IN
    Len(it.hits) = 0 =>
      /\ Len(it.fetches) = 1
      /\ it.fetches[1].codename = item.codename
      /\ it.fetches[1].language = item.language
      /\ Len(it.actions) = 1
      /\ it.actions[1].objectIdsToRemove = <<>>
      /\ Len(it.actions[1].recordsToReindex) = (IF eligible THEN 1 ELSE 0)
      /\ \A r \in Range(it.actions[1].recordsToReindex) :
           r.codename = item.codename /\ r.language = item.language

C15_Witness ==
  /\ Len(task) = 1
  /\ Len(task[1].items) = 2
  /\ task[1].pc = "done"
  /\ \E i, j \in 1..2 :
       /\ Len(task[1].items[i].hits) = 0
       /\ ProjectionRejected(task[1].items[i], 1)
       /\ task[1].items[i].actions[1].recordsToReindex = <<>>
       /\ Len(task[1].items[j].hits) = 0
       /\ Len(task[1].items[j].actions[1].recordsToReindex) = 1

(***************************************************************************)
(* C16, as stated: a task that has ended its writes has called saveObjects *)
(* if and only if its recordsToReIndex is not empty and deleteObjects if   *)
(* and only if its objectIdsToRemove is not empty, whether saveObjects was *)
(* skipped, succeeded or failed.                                           *)
(***************************************************************************)
WritesEnded(n) ==
  /\ task[n].pc \in {"done", "failed"}
  /\ task[n].threw \in {"", "save", "delete"}

C16_ApplyIndependent ==
  \A n \in Tasks :
    WritesEnded(n) =>
      /\ SaveIssued(n) <=> Len(Upserts(n)) > 0
      /\ DeleteIssued(n) <=> Len(Removals(n)) > 0

(***************************************************************************)
(* C17: when the index holds, before a run, at most one record per         *)
(* (codename, language) pair, each under the objectID of its pair, it      *)
(* holds at most one record per pair in every state of the run and after   *)
(* it, whatever the number of notifications and the order of their writes. *)
(***************************************************************************)
OneRecordPerPair(idx) ==
  \A r, q \in idx : (r.codename = q.codename /\ r.language = q.language) => r = q

StableObjectIds(idx) == \A r \in idx : r.objectID = ObjectIdOf(r.codename, r.language)

C17_NoDuplicates ==
  (OneRecordPerPair(index0) /\ StableObjectIds(index0)) => OneRecordPerPair(index)

C17_Witness ==
  /\ index0 # {}
  /\ OneRecordPerPair(index0)
  /\ StableObjectIds(index0)
  /\ Len(task) = 2
  /\ response.statusCode = 200
  /\ SaveIssued(1)
  /\ SaveIssued(2)
  /\ index # index0

(***************************************************************************)
(* C18, as stated: with no call throwing, every record a work item of a    *)
(* notification produces for a (codename, language) pair is among the      *)
(* records the notification hands to saveObjects, and is in the index when *)
(* a run of that one notification has answered the summary.                *)
(***************************************************************************)
\* The records the work items of notification n produce, before the merge.
ProducedRecords(n) ==
  UNION { Range(Actions(task[n].items)[k].recordsToReindex) :
            k \in 1..Len(Actions(task[n].items)) }

C18_NoVariantLost ==
  \A n \in Tasks :
    (faults = 0 /\ task[n].pc \in {"save", "delete", "done"}) =>
      /\ \A r \in ProducedRecords(n) :
           \E q \in Range(Upserts(n)) : q.codename = r.codename /\ q.language = r.language
      /\ (Len(task) = 1 /\ response.statusCode = 200) => ProducedRecords(n) \subseteq index

(***************************************************************************)
(* C19: every objectID a task hands to deleteObjects is the objectID of a  *)
(* record one of its searches returned, and a record the index held before *)
(* the run whose objectID no search of the run has returned is never       *)
(* deleted: the index still holds a record under that objectID.            *)
(***************************************************************************)
\* The objectIDs of the records the searches of task n have returned.
HitObjectIds(n) ==
  UNION { { task[n].items[i].hits[k].objectID : k \in 1..Len(task[n].items[i].hits) } :
            i \in 1..Len(task[n].items) }

C19_RemovalFrame ==
  /\ \A n \in Tasks : Range(Removals(n)) \subseteq HitObjectIds(n)
  /\ \A e \in index0 :
       (\A n \in Tasks : e.objectID \notin HitObjectIds(n))
         => \E r \in index : r.objectID = e.objectID

C19_Witness ==
  /\ response.statusCode = 200
  /\ \E n \in Tasks : DeleteIssued(n)
  /\ \E e \in index0 : /\ \A n \in Tasks : e.objectID \notin HitObjectIds(n)
                        /\ e \in index
  /\ index # index0

====
